---- MODULE Spec2Model ----
(***************************************************************************)
(* Model of generate_yaml.py: the QuipHTMLToYamlParser state machine that  *)
(* turns the parse events of a Quip document (start tag, end tag, text)    *)
(* into a learning-map dictionary, and get_token, which resolves the       *)
(* access token from the environment or ~/.quiprc.                         *)
(*                                                                         *)
(* Strings are sequences of one-character strings.  The script is written  *)
(* for the interpreter whose str is a byte string (data + "\n" and         *)
(* item_regex.match(data) are applied to the result of raw.encode), so a   *)
(* str value is a sequence of bytes; a non-ASCII character is a token      *)
(* naming its code point and encodes to the tokens of its UTF-8 bytes.     *)
(***************************************************************************)
EXTENDS Integers, Sequences, FiniteSets, TLC

(***************************************************************************)
(* Bounds of the model.                                                    *)
(***************************************************************************)
\* longest document, counted in elements (a heading, a paragraph, a list)
MaxFrags == 4
\* longest stream of arbitrary single events
MaxRaw == 3
\* most sites in the "sites" mapping of ~/.quiprc
MaxSites == 2
\* most fragments that follow a document with a step, a column and an item
MaxTail == 2

(***************************************************************************)
(* Text: characters, UTF-8 encoding, the item regular expression, strip.   *)
(***************************************************************************)
WordChars ==
    { "a", "b", "c", "d", "e", "f", "g", "h", "i", "j", "k", "l", "m",
      "n", "o", "p", "q", "r", "s", "t", "u", "v", "w", "x", "y", "z",
      "A", "B", "C", "D", "E", "F", "G", "H", "I", "J", "K", "L", "M",
      "N", "O", "P", "Q", "R", "S", "T", "U", "V", "W", "X", "Y", "Z",
      "0", "1", "2", "3", "4", "5", "6", "7", "8", "9", "_" }

Whitespace == { " ", "\t", "\n", "\r" }

\* raw.encode("utf-8") of one character: ASCII is one byte, U+00E9 is two
EncodeChar(c) == IF c = "U+00E9" THEN << "0xC3", "0xA9" >> ELSE << c >>

RECURSIVE Encode(_)
Encode(raw) ==
    IF raw = << >> THEN << >>
    ELSE EncodeChar(Head(raw)) \o Encode(Tail(raw))

\* length of the longest prefix of s made of word characters: \w+ is greedy
RECURSIVE WordRun(_)
WordRun(s) ==
    IF s # << >> /\ Head(s) \in WordChars THEN 1 + WordRun(Tail(s)) ELSE 0

\* length of the longest prefix of s without a newline: .+ is greedy and
\* the dot does not match "\n"
RECURSIVE LineRun(_)
LineRun(s) ==
    IF s # << >> /\ Head(s) # "\n" THEN 1 + LineRun(Tail(s)) ELSE 0

NoMatch == [matched |-> FALSE, group1 |-> << >>, group2 |-> << >>]

\* item_regex.match(data) for item_regex = "(\w+):(.+)", anchored at the
\* start of data.  ":" is not a word character, so the only split that can
\* succeed is the longest run of word characters followed by ":".
item_regex_match(data) ==
    LET n == WordRun(data)
        rest == SubSeq(data, n + 2, Len(data))
        m == LineRun(rest)
    IN  IF n >= 1 /\ Len(data) >= n + 1 /\ data[n + 1] = ":" /\ m >= 1
        THEN [matched |-> TRUE,
              group1 |-> SubSeq(data, 1, n),
              group2 |-> SubSeq(rest, 1, m)]
        ELSE NoMatch

RECURSIVE LStrip(_)
LStrip(s) ==
    IF s # << >> /\ Head(s) \in Whitespace THEN LStrip(Tail(s)) ELSE s

RECURSIVE RStrip(_)
RStrip(s) ==
    IF s # << >> /\ s[Len(s)] \in Whitespace
    THEN RStrip(SubSeq(s, 1, Len(s) - 1)) ELSE s

\* str.strip()
Strip(s) == RStrip(LStrip(s))

(***************************************************************************)
(* Dictionaries are functions; d[k] = v adds or replaces one key.          *)
(***************************************************************************)
EmptyDict == << >>

SetField(d, k, v) == (k :> v) @@ d

\* d.get(k, None) followed by a truth test: absent, None and empty are falsy
Truthy(d, k) == k \in DOMAIN d /\ d[k] # << >>

(***************************************************************************)
(* Parse events.                                                           *)
(***************************************************************************)
Tags == { "h1", "h2", "h3", "p", "blockquote", "ul", "li", "span" }

TagOpen(t) == [kind |-> "open", tag |-> t, raw |-> << >>]
TagClose(t) == [kind |-> "close", tag |-> t, raw |-> << >>]
Text(s) == [kind |-> "text", tag |-> "", raw |-> s]

(***************************************************************************)
(* QuipHTMLToYamlParser.  An attribute that __init__ does not create       *)
(* (current_step, current_column, current_item, current_key,               *)
(* defining_steps) is << >> until it is first assigned.  A reference to a  *)
(* dictionary held by the output is the path of indices that leads to it:  *)
(* lists of the output only ever grow at the end, so a path keeps naming   *)
(* the same dictionary.                                                    *)
(***************************************************************************)
Unset == << >>

\* the object after __init__
NewParser ==
    [output |-> [title |-> << >>, description |-> << >>, steps |-> << >>],
     current_tags |-> << >>,
     state |-> "title",
     current_step |-> Unset,
     current_column |-> Unset,
     current_item |-> Unset,
     current_key |-> Unset,
     defining_steps |-> Unset,
     err |-> "none"]

Raise(self, e) == [self EXCEPT !.err = e]

\* the dictionaries that the references name
StepAt(out, path) == out.steps[path[1]]
ColumnAt(out, path) == out.steps[path[1]].columns[path[2]]
ItemAt(out, path) == out.steps[path[1]].columns[path[2]].items[path[3]]

\* the output after the named dictionary has been changed in place
WithStep(out, path, step) == [out EXCEPT !.steps[path[1]] = step]
WithColumn(out, path, col) ==
    WithStep(out, path,
        [StepAt(out, path) EXCEPT !.columns[path[2]] = col])
WithItem(out, path, item) ==
    WithColumn(out, path,
        [ColumnAt(out, path) EXCEPT !.items[path[3]] = item])

\* StartItem with a slip: the items list is created anew for every list
StartItem_Replacing(self) ==
    IF self.current_column = Unset THEN Raise(self, "AttributeError")
    ELSE
    LET col == ColumnAt(self.output, self.current_column)
    IN  [self EXCEPT
            !.state = "item",
            !.current_item = self.current_column \o << 1 >>,
            !.output = WithColumn(self.output, self.current_column,
                          SetField(col, "items", << EmptyDict >>))]

\* handle_starttag, the "ul" branch: a new item of the current column
StartItem(self) ==
    IF self.current_column = Unset THEN Raise(self, "AttributeError")
    ELSE
    LET col == ColumnAt(self.output, self.current_column)
        items == IF Truthy(col, "items") THEN col.items ELSE << >>
    IN  [self EXCEPT
            !.state = "item",
            !.current_item = self.current_column \o << Len(items) + 1 >>,
            !.output = WithColumn(self.output, self.current_column,
                          SetField(col, "items", Append(items, EmptyDict)))]

\* handle_starttag with a slip: a list starts an item in every mode
handle_starttag_AnyMode(self, tag) ==
    LET pushed == [self EXCEPT !.current_tags = Append(@, tag)]
    IN  IF tag = "ul" THEN StartItem(pushed) ELSE pushed

handle_starttag(self, tag) ==
    LET pushed == [self EXCEPT !.current_tags = Append(@, tag)]
    IN  IF tag = "ul" /\ (pushed.state = "column" \/ pushed.state = "item")
        THEN StartItem(pushed)
        ELSE pushed

\* handle_endtag with a slip: only a tag that matches the innermost is popped
handle_endtag_Matching(self, tag) ==
    IF self.current_tags = << >> THEN Raise(self, "IndexError")
    ELSE IF self.current_tags[Len(self.current_tags)] # tag THEN self
    ELSE [self EXCEPT !.current_tags = SubSeq(@, 1, Len(@) - 1)]

\* list.pop() of an empty list raises IndexError
handle_endtag(self, tag) ==
    IF self.current_tags = << >> THEN Raise(self, "IndexError")
    ELSE [self EXCEPT !.current_tags = SubSeq(@, 1, Len(@) - 1)]

\* DataH1 with a slip: the heading text is stored as the description
DataH1_IntoDescription(self, current_tag, data) ==
    IF current_tag = "h1" /\ self.state = "title"
    THEN [self EXCEPT !.defining_steps = << FALSE >>,
                      !.output.description = data]
    ELSE self

\* handle_data, one operator per if statement, in the order of the source
DataH1(self, current_tag, data) ==
    IF current_tag = "h1" /\ self.state = "title"
    THEN [self EXCEPT !.defining_steps = << FALSE >>,
                      !.output.title = data]
    ELSE self

\* DataPTitle with a slip: no newline after the paragraph
DataPTitle_NoNewline(self, current_tag, data) ==
    IF current_tag = "p" /\ self.state = "title"
    THEN [self EXCEPT !.output.description = @ \o data]
    ELSE self

DataPTitle(self, current_tag, data) ==
    IF current_tag = "p" /\ self.state = "title"
    THEN [self EXCEPT !.output.description = @ \o data \o << "\n" >>]
    ELSE self

\* DataH2 with a slip: a step is created with an empty list of columns
DataH2_WithColumns(self, current_tag, data) ==
    IF current_tag = "h2"
    THEN [self EXCEPT
            !.state = "step",
            !.current_step = << Len(self.output.steps) + 1 >>,
            !.output.steps =
                Append(@, [navtitle |-> data, title |-> data,
                           columns |-> << >>])]
    ELSE self

\* DataH2 with a slip: a heading starts a step only in title mode
DataH2_OnlyInTitle(self, current_tag, data) ==
    IF current_tag = "h2" /\ self.state = "title"
    THEN [self EXCEPT
            !.state = "step",
            !.current_step = << Len(self.output.steps) + 1 >>,
            !.output.steps =
                Append(@, [navtitle |-> data, title |-> data])]
    ELSE self

DataH2(self, current_tag, data) ==
    IF current_tag = "h2"
    THEN [self EXCEPT
            !.state = "step",
            !.current_step = << Len(self.output.steps) + 1 >>,
            !.output.steps =
                Append(@, [navtitle |-> data, title |-> data])]
    ELSE self

DataBlockquote(self, current_tag, data) ==
    IF current_tag = "blockquote" /\ self.state = "step"
    THEN IF self.current_step = Unset THEN Raise(self, "AttributeError")
         ELSE [self EXCEPT !.output =
                  WithStep(self.output, self.current_step,
                      SetField(StepAt(self.output, self.current_step),
                               "title", data))]
    ELSE self

DataPStep(self, current_tag, data) ==
    IF current_tag = "p" /\ self.state = "step"
    THEN IF self.current_step = Unset THEN Raise(self, "AttributeError")
         ELSE
         LET step == StepAt(self.output, self.current_step)
             old == IF Truthy(step, "description")
                    THEN step.description ELSE << >>
         IN  [self EXCEPT !.output =
                 WithStep(self.output, self.current_step,
                     SetField(step, "description",
                              old \o data \o << "\n" >>))]
    ELSE self

DataH3(self, current_tag, data) ==
    IF current_tag = "h3" /\ self.state = "step"
    THEN IF self.current_step = Unset THEN Raise(self, "AttributeError")
         ELSE
         LET step == StepAt(self.output, self.current_step)
             cols == IF Truthy(step, "columns") THEN step.columns ELSE << >>
         IN  [self EXCEPT
                 !.state = "column",
                 !.current_column = self.current_step \o << Len(cols) + 1 >>,
                 !.output =
                     WithStep(self.output, self.current_step,
                         SetField(step, "columns",
                                  Append(cols, [title |-> data])))]
    ELSE self

\* the if branch of the last statement: a "key: value" span of an item
SpanKeyValue(self, data) ==
    LET match == item_regex_match(data)
    IN  IF match.matched
        THEN IF self.current_item = Unset
             THEN Raise(self, "AttributeError")
             ELSE
             LET key == Strip(match.group1)
                 value == Strip(match.group2)
             IN  [self EXCEPT
                     !.current_key = << key >>,
                     !.output =
                         WithItem(self.output, self.current_item,
                             SetField(ItemAt(self.output, self.current_item),
                                      key, value))]
        ELSE self

\* the elif branch: self.current_item[self.current_key] += data
SpanContinuation(self, data) ==
    IF self.current_item = Unset \/ self.current_key = Unset
    THEN Raise(self, "AttributeError")
    ELSE
    LET item == ItemAt(self.output, self.current_item)
        key == self.current_key[1]
    IN  IF key \notin DOMAIN item THEN Raise(self, "KeyError")
        ELSE [self EXCEPT !.output =
                 WithItem(self.output, self.current_item,
                     SetField(item, key, item[key] \o data))]

InStack(tag, tags) == \E i \in 1..Len(tags) : tags[i] = tag

DataSpan(self, current_tag, data) ==
    IF current_tag = "span" /\ self.state = "item"
    THEN SpanKeyValue(self, data)
    ELSE IF InStack("span", self.current_tags)
         THEN SpanContinuation(self, data)
         ELSE self

\* the statements of handle_data run in sequence; an exception ends the call
Then(self, next) == IF self.err # "none" THEN self ELSE next

\* handle_data with a slip: no test for an empty stack, so
\* self.current_tags[-1] raises IndexError
handle_data_Unguarded(self, raw) ==
    LET data == Encode(raw)
    IN  IF Len(self.current_tags) = 0 THEN Raise(self, "IndexError")
        ELSE
        LET current_tag == self.current_tags[Len(self.current_tags)]
            s1 == DataH1(self, current_tag, data)
            s2 == Then(s1, DataPTitle(s1, current_tag, data))
            s3 == Then(s2, DataH2(s2, current_tag, data))
            s4 == Then(s3, DataBlockquote(s3, current_tag, data))
            s5 == Then(s4, DataPStep(s4, current_tag, data))
            s6 == Then(s5, DataH3(s5, current_tag, data))
        IN  Then(s6, DataSpan(s6, current_tag, data))

handle_data(self, raw) ==
    LET data == Encode(raw)
    IN  IF Len(self.current_tags) = 0 THEN self
        ELSE
        LET current_tag == self.current_tags[Len(self.current_tags)]
            s1 == DataH1(self, current_tag, data)
            s2 == Then(s1, DataPTitle(s1, current_tag, data))
            s3 == Then(s2, DataH2(s2, current_tag, data))
            s4 == Then(s3, DataBlockquote(s3, current_tag, data))
            s5 == Then(s4, DataPStep(s4, current_tag, data))
            s6 == Then(s5, DataH3(s5, current_tag, data))
        IN  Then(s6, DataSpan(s6, current_tag, data))

(***************************************************************************)
(* get_token.  The environment variable is << >> when it is not set.  The  *)
(* file ~/.quiprc is absent, or holds a JSON object with or without the    *)
(* key "sites"; "sites" is the sequence of its (name, config) pairs in     *)
(* iteration order, and a config is None (JSON null) or a dictionary.      *)
(***************************************************************************)
login_error == "You don't seem to be logged in. Set QUIP_TOKEN to an access token or try installing quip-cli and running quip-cli login."

\* JSON values: null (None) and strings
None == [json |-> "null", str |-> ""]
JsonString(s) == [json |-> "string", str |-> s]

Return(v) == [kind |-> "return", value |-> v, exc |-> "", msg |-> ""]
Raises(e, m) == [kind |-> "raise", value |-> "", exc |-> e, msg |-> m]
Pending == [kind |-> "pending", value |-> "", exc |-> "", msg |-> ""]

SiteNames(sites) == { sites[i][1] : i \in 1..Len(sites) }

\* sites[name] of a name that is a key
SiteConfig(sites, name) ==
    sites[CHOOSE i \in 1..Len(sites) : sites[i][1] = name][2]

\* sites.get(name, None)
SiteGet(sites, name) ==
    IF name \in SiteNames(sites) THEN SiteConfig(sites, name) ELSE None

\* the truth value of a config: None and the empty dictionary are falsy
ConfigTruthy(config) == config # None /\ config # EmptyDict

\* str(config["accessToken"])
AccessToken(config) ==
    IF config = None THEN Raises("TypeError", "")
    ELSE IF "accessToken" \notin DOMAIN config THEN Raises("KeyError", "")
    ELSE IF config["accessToken"] = None THEN Return("None")
    ELSE Return(config["accessToken"].str)

\* first_site is a key of the "sites" object, a string: it is never None
IsNone(first_site) == FALSE

\* TokenFromSites with a slip: the first site is used, "quip.com" or not
TokenFromSites_FirstSite(sites) ==
    IF sites = << >> THEN Raises("StopIteration", "")
    ELSE AccessToken(sites[1][2])

\* the statements after the file has been read and parsed
TokenFromSites(sites) ==
    LET named == SiteGet(sites, "quip.com")
    IN  IF ConfigTruthy(named) THEN AccessToken(named)
        ELSE IF sites = << >> THEN Raises("StopIteration", "")
        ELSE
        LET first_site == sites[1][1]
            config == IF first_site # "" THEN SiteConfig(sites, first_site)
                      ELSE named
        IN  IF ~ConfigTruthy(config) /\ IsNone(first_site)
            THEN Raises("AssertionError", login_error)
            ELSE AccessToken(config)

get_token(environ, rcfile) ==
    IF environ # << >> /\ environ[1] # ""
    THEN Return(environ[1])
    ELSE IF rcfile.kind = "absent" THEN Raises("IOError", "")
    ELSE IF rcfile.kind = "invalid" THEN Raises("ValueError", "")
    ELSE IF rcfile.kind = "nosites" THEN Raises("KeyError", "")
    ELSE TokenFromSites(rcfile.sites)

(***************************************************************************)
(* Inputs.  A document is a sequence of fragments, each a sequence of      *)
(* parse events: the elements a Quip document is made of, or single        *)
(* events in any order.                                                    *)
(***************************************************************************)
Txt_T == << "T" >>
Txt_D == << "D" >>
Txt_S1 == << "S", "1" >>
Txt_S2 == << "S", "U+00E9" >>
Txt_Q1 == << "Q", "1" >>
Txt_Q2 == << "Q", "2" >>
Txt_C1 == << "C", "1" >>
Txt_C2 == << "C", "2" >>
Txt_title == << "t", "i", "t", "l", "e" >>
Txt_titleX == Txt_title \o << ":", " ", "X" >>
Txt_titleFoo == Txt_title \o << ":", " ", "F", "o", "o" >>
Txt_Bar == << " ", "B", "a", "r" >>
Txt_urlY == << "u", "r", "l", ":", "Y", " " >>

\* <tag>s</tag>
Element(tag, s) == << TagOpen(tag), Text(s), TagClose(tag) >>

RECURSIVE Flatten(_)
Flatten(fs) == IF fs = << >> THEN << >> ELSE Head(fs) \o Flatten(Tail(fs))

\* <ul><li><span>s1</span><span>s2</span>...</li></ul>
SpanOf(s) == Element("span", s)
ListOf(texts) ==
    << TagOpen("ul"), TagOpen("li") >>
    \o Flatten([i \in 1..Len(texts) |-> SpanOf(texts[i])])
    \o << TagClose("li"), TagClose("ul") >>

Headings2 == { Element("h2", Txt_S1), Element("h2", Txt_S2) }
Headings3 == { Element("h3", Txt_C1), Element("h3", Txt_C2) }
Quotes == { Element("blockquote", Txt_Q1), Element("blockquote", Txt_Q2) }
KeyValueLists == { ListOf(<< Txt_titleX >>), ListOf(<< Txt_urlY >>) }
Lists ==
    KeyValueLists
    \cup { ListOf(<< Txt_titleFoo, Txt_Bar >>), ListOf(<< Txt_Bar >>) }

Elements ==
    { Element("h1", Txt_T), Element("p", Txt_D) }
    \cup Headings2 \cup Quotes \cup Headings3 \cup Lists

RawEvents ==
    { << TagOpen(t) >> : t \in Tags }
    \cup { << TagClose("h2") >>, << TagClose("span") >> }
    \cup { << Text(Txt_S1) >>, << Text(Txt_titleX) >>, << Text(Txt_Bar) >> }

SeqsUpTo(S, n) == UNION { [1..k -> S] : k \in 0..n }

\* the fixture <h1>T</h1><p>D</p><h2>S1</h2><h3>C1</h3>
\*             <ul><li><span>title: X</span></li></ul>
Fixture ==
    << Element("h1", Txt_T), Element("p", Txt_D), Element("h2", Txt_S1),
       Element("h3", Txt_C1), ListOf(<< Txt_titleX >>) >>

\* <span><p>D</p></span>: a paragraph whose text arrives while a span is open
ParaInSpan ==
    << TagOpen("span") >> \o Element("p", Txt_D) \o << TagClose("span") >>

\* what may follow a document that already has a step, a column or an item:
\* elements, a paragraph inside a span, single events
TailFragments ==
    { Element("h2", Txt_S1), Element("h3", Txt_C2), Element("p", Txt_D),
      ListOf(<< Txt_titleX >>), ParaInSpan,
      << Text(Txt_S1) >>, << TagOpen("ul") >> }

\* the fixture, and its step and column alone
Contexts == { Fixture, SubSeq(Fixture, 3, 4) }

ContextDocuments ==
    { c \o t : c \in Contexts, t \in SeqsUpTo(TailFragments, MaxTail) }

Documents ==
    SeqsUpTo(Elements, MaxFrags) \cup SeqsUpTo(RawEvents, MaxRaw)
    \cup { Fixture } \cup ContextDocuments

\* QUIP_TOKEN: not set, set to the empty string, set to a token
EnvValues == { << >>, << "" >>, << "tokE" >> }

Configs ==
    { None, EmptyDict,
      "accessToken" :> JsonString("tokA"), "accessToken" :> JsonString("tokB"),
      "accessToken" :> None, "userId" :> JsonString("u") }

\* names of sites: host names, as quip-cli login writes them (never empty)
HostNames == { "quip.com", "corp.quip.com", "example.com" }

SiteLists ==
    { s \in SeqsUpTo(HostNames \X Configs, MaxSites) :
        \A i, j \in 1..Len(s) : s[i][1] = s[j][1] => i = j }

RcFiles ==
    { [kind |-> k, sites |-> << >>] : k \in { "absent", "invalid", "nosites" } }
    \cup { [kind |-> "sites", sites |-> s] : s \in SiteLists }

\* sys.argv[1:]: no argument, an empty one, a document id
ArgvValues == { << >>, << "" >>, << "doc" >> }

\* ~/.quiprc of the whole program: absent, without a site, with a token
MainRcFiles ==
    { [kind |-> "absent", sites |-> << >>],
      [kind |-> "sites", sites |-> << >>],
      [kind |-> "sites",
       sites |-> << << "quip.com", "accessToken" :> JsonString("tokA") >> >>] }

\* what the request for the thread comes back with: urlopen raises URLError
\* or HTTPError, the body is not JSON, the JSON has no "html", or it has
Responses == { "URLError", "HTTPError", "invalid", "nohtml", "thread" }

\* the html of the thread: one fragment, the fixture, the fixture and a tail
MainDocuments ==
    { << >>, Fixture }
    \cup { << f >> : f \in Elements \cup RawEvents }
    \cup { Fixture \o << f >> : f \in TailFragments }

(***************************************************************************)
(* State.                                                                  *)
(***************************************************************************)
VARIABLES
    pc,               \* "feed": parser.feed is running; "get_token": the
                      \* call of get_token has not run yet; "token": it has
    frags,            \* the document, as fragments
    input,            \* the document, as the stream of its parse events
    pos,              \* number of events already handled
    output,           \* self.output
    current_tags,     \* self.current_tags
    state,            \* self.state
    current_step,     \* self.current_step
    current_column,   \* self.current_column
    current_item,     \* self.current_item
    current_key,      \* self.current_key
    defining_steps,   \* self.defining_steps
    err,              \* the exception that ended feed, or "none"
    environ,          \* os.environ.get("QUIP_TOKEN"), << >> when not set
    rcfile,           \* ~/.quiprc
    token,            \* what get_token returned or raised
    argv,             \* sys.argv[1:]
    response,         \* what the request came back with, << >> before it
    yaml,             \* the local yaml of main, << >> before it is set
    stdout,           \* what has been printed
    uncaught          \* the exception that ended the script, if one did

parser_vars ==
    << output, current_tags, state, current_step, current_column,
       current_item, current_key, defining_steps, err >>
input_vars == << frags, input, pos >>
token_vars == << environ, rcfile, token >>
main_vars == << argv, response, yaml, stdout, uncaught >>
vars == << pc, input_vars, parser_vars, token_vars, main_vars >>

\* the parser object
Self ==
    [output |-> output, current_tags |-> current_tags, state |-> state,
     current_step |-> current_step, current_column |-> current_column,
     current_item |-> current_item, current_key |-> current_key,
     defining_steps |-> defining_steps, err |-> err]

IsParser(self) ==
    /\ output = self.output
    /\ current_tags = self.current_tags
    /\ state = self.state
    /\ current_step = self.current_step
    /\ current_column = self.current_column
    /\ current_item = self.current_item
    /\ current_key = self.current_key
    /\ defining_steps = self.defining_steps
    /\ err = self.err

Becomes(self) ==
    /\ output' = self.output
    /\ current_tags' = self.current_tags
    /\ state' = self.state
    /\ current_step' = self.current_step
    /\ current_column' = self.current_column
    /\ current_item' = self.current_item
    /\ current_key' = self.current_key
    /\ defining_steps' = self.defining_steps
    /\ err' = self.err

\* the script around the parser has done nothing
NotStarted ==
    /\ argv = << "doc" >>
    /\ response = << >>
    /\ yaml = << >>
    /\ stdout = << >>
    /\ uncaught = Pending

\* parse_document: a fresh parser, about to be fed the document
Init ==
    /\ pc = "feed"
    /\ frags \in Documents
    /\ input = Flatten(frags)
    /\ pos = 0
    /\ IsParser(NewParser)
    /\ environ = << >>
    /\ rcfile = [kind |-> "absent", sites |-> << >>]
    /\ token = Pending
    /\ NotStarted

\* feed delivers the next event of the document to its handler
NextEvent(kind) ==
    /\ pc = "feed"
    /\ err = "none"
    /\ pos < Len(input)
    /\ input[pos + 1].kind = kind
    /\ pos' = pos + 1
    /\ UNCHANGED << pc, frags, input, token_vars, main_vars >>

HandleStartTag ==
    /\ NextEvent("open")
    /\ Becomes(handle_starttag(Self, input[pos + 1].tag))

HandleEndTag ==
    /\ NextEvent("close")
    /\ Becomes(handle_endtag(Self, input[pos + 1].tag))

HandleData ==
    /\ NextEvent("text")
    /\ Becomes(handle_data(Self, input[pos + 1].raw))

Next == HandleStartTag \/ HandleEndTag \/ HandleData

Spec == Init /\ [][Next]_vars

(***************************************************************************)
(* get_token on its own: every environment and every ~/.quiprc.           *)
(***************************************************************************)
InitToken ==
    /\ pc = "get_token"
    /\ frags = << >>
    /\ input = << >>
    /\ pos = 0
    /\ IsParser(NewParser)
    /\ environ \in EnvValues
    /\ rcfile \in RcFiles
    /\ token = Pending
    /\ NotStarted

GetToken ==
    /\ pc = "get_token"
    /\ pc' = "token"
    /\ token' = get_token(environ, rcfile)
    /\ UNCHANGED << input_vars, parser_vars, environ, rcfile, main_vars >>

NextToken == GetToken

SpecToken == InitToken /\ [][NextToken]_vars

(***************************************************************************)
(* The whole script: the module body, then main.                           *)
(***************************************************************************)
InitMain ==
    /\ pc = "start"
    /\ frags \in MainDocuments
    /\ input = Flatten(frags)
    /\ pos = 0
    /\ IsParser(NewParser)
    /\ environ \in EnvValues
    /\ rcfile \in MainRcFiles
    /\ token = Pending
    /\ argv \in ArgvValues
    /\ response = << >>
    /\ yaml = << >>
    /\ stdout = << >>
    /\ uncaught = Pending

\* an exception nobody catches ends the script
Exit(exc, msg) ==
    /\ pc' = "exit"
    /\ uncaught' = Raises(exc, msg)

\* the module body: doc_id = sys.argv[1], then the assert; main is called,
\* and the first thing evaluated in fetch_doc after the url is get_token()
Start ==
    /\ pc = "start"
    /\ IF Len(argv) = 0
       THEN Exit("IndexError", "list index out of range")
       ELSE IF argv[1] = ""
       THEN Exit("AssertionError",
                 "Pass a document ID as the first argument to this script.")
       ELSE pc' = "get_token" /\ UNCHANGED uncaught
    /\ UNCHANGED << input_vars, parser_vars, token_vars, argv, response,
                    yaml, stdout >>

\* fetch_doc after get_token: the request, the read and json.loads
FetchDoc ==
    /\ pc = "token"
    /\ IF token.kind = "raise"
       THEN Exit(token.exc, token.msg) /\ UNCHANGED response
       ELSE \E r \in Responses :
               /\ response' = r
               /\ IF r \in { "URLError", "HTTPError" } THEN Exit(r, "")
                  ELSE IF r = "invalid" THEN Exit("ValueError", "")
                  ELSE pc' = "parse" /\ UNCHANGED uncaught
    /\ UNCHANGED << input_vars, parser_vars, token_vars, argv, yaml, stdout >>

\* parse_document up to the call of feed: a new parser, doc["html"]
ParseDocument ==
    /\ pc = "parse"
    /\ IF response = "nohtml"
       THEN Exit("KeyError", "html")
       ELSE pc' = "feed" /\ UNCHANGED uncaught
    /\ Becomes(NewParser)
    /\ UNCHANGED << input_vars, token_vars, argv, response, yaml, stdout >>

\* an exception of a handler leaves feed, parse_document and main
FeedRaises ==
    /\ pc = "feed"
    /\ err # "none"
    /\ Exit(err, "")
    /\ UNCHANGED << input_vars, parser_vars, token_vars, argv, response,
                    yaml, stdout >>

\* yaml.dump(parser.output, default_flow_style=False): the YAML text is
\* named by the mapping it is the block-style dump of
yaml_dump(data) == [dump |-> data, default_flow_style |-> FALSE]

\* Dump with a slip: the output is dumped although a handler raised
Dump_AfterError ==
    /\ pc = "feed"
    /\ err # "none" \/ pos = Len(input)
    /\ pc' = "print"
    /\ yaml' = yaml_dump(output)
    /\ UNCHANGED << input_vars, parser_vars, token_vars, argv, response,
                    stdout, uncaught >>

\* feed has returned: parse_document returns the dump to main
Dump ==
    /\ pc = "feed"
    /\ err = "none"
    /\ pos = Len(input)
    /\ pc' = "print"
    /\ yaml' = yaml_dump(output)
    /\ UNCHANGED << input_vars, parser_vars, token_vars, argv, response,
                    stdout, uncaught >>

\* print(yaml)
PrintYaml ==
    /\ pc = "print"
    /\ pc' = "done"
    /\ stdout' = Append(stdout, yaml)
    /\ UNCHANGED << input_vars, parser_vars, token_vars, argv, response,
                    yaml, uncaught >>

NextMain ==
    \/ Start
    \/ GetToken
    \/ FetchDoc
    \/ ParseDocument
    \/ HandleStartTag
    \/ HandleEndTag
    \/ HandleData
    \/ FeedRaises
    \/ Dump
    \/ PrintYaml

SpecMain == InitMain /\ [][NextMain]_vars

\* the exit status of the script
ExitStatus == IF uncaught = Pending THEN 0 ELSE 1

\* the parser has handled the whole document and feed has returned
Parsed == pc = "feed" /\ err = "none" /\ pos = Len(input)

(***************************************************************************)
(* What a document says, read from its events alone.                       *)
(***************************************************************************)
IsElement(f, tag) ==
    /\ Len(f) = 3
    /\ f[1] = TagOpen(tag)
    /\ f[2].kind = "text"
    /\ f[3] = TagClose(tag)

\* number of tags open before event i, counted from the events
Depth(evs, i) ==
    Cardinality({ j \in 1..(i - 1) : evs[j].kind = "open" })
    - Cardinality({ j \in 1..(i - 1) : evs[j].kind = "close" })

\* every element of this tag is <tag>text</tag> at the root
SimpleAtRoot(evs, tag) ==
    \A i \in 1..Len(evs) :
        evs[i] = TagOpen(tag) =>
            /\ Depth(evs, i) = 0
            /\ i + 2 <= Len(evs)
            /\ evs[i + 1].kind = "text"
            /\ evs[i + 2] = TagClose(tag)

\* positions of the start tags of this name, in order
Positions(evs, tag) ==
    SelectSeq([i \in 1..Len(evs) |-> i], LAMBDA i : evs[i] = TagOpen(tag))

\* the events from the i-th h2 heading up to the next one (or the end)
SectionStart(evs, i) == Positions(evs, "h2")[i]
SectionEnd(evs, i) ==
    IF i < Len(Positions(evs, "h2"))
    THEN Positions(evs, "h2")[i + 1] - 1 ELSE Len(evs)
Section(evs, i) == SubSeq(evs, SectionStart(evs, i), SectionEnd(evs, i))

\* the texts of the elements of this tag, in order, as the parser sees them
TextsOf(evs, tag) ==
    LET ps == Positions(evs, tag)
    IN  [k \in 1..Len(ps) |-> Encode(evs[ps[k] + 1].raw)]

\* an optional list of a dictionary
ListField(d, k) == IF k \in DOMAIN d THEN d[k] ELSE << >>

Last(s) == s[Len(s)]

\* C1: after a document whose h2 headings are all <h2>text</h2> at the root
\* has been parsed, steps has one entry per heading, in source order, with
\* navtitle the heading text, and title the heading text too unless a
\* blockquote was opened between that heading and the next.
C1_StepsPerHeading ==
    (Parsed /\ SimpleAtRoot(input, "h2")) =>
        LET heads == TextsOf(input, "h2")
        IN  /\ Len(output.steps) = Len(heads)
            /\ \A i \in 1..Len(heads) :
                /\ output.steps[i].navtitle = heads[i]
                /\ \/ output.steps[i].title = heads[i]
                   \/ Positions(Section(input, i), "blockquote") # << >>

C1_Witness ==
    /\ Parsed
    /\ SimpleAtRoot(input, "h2")
    /\ Len(output.steps) = 3
    /\ output.steps[1].title # output.steps[1].navtitle
    /\ output.steps[2].title = output.steps[2].navtitle
    /\ output.steps[2].navtitle # output.steps[3].navtitle

\* C2: after parsing, each step has one column per h3 heading between its
\* h2 heading and the next, in order, each titled by its heading text.
C2_ColumnPerH3 ==
    (Parsed /\ SimpleAtRoot(input, "h2") /\ SimpleAtRoot(input, "h3")) =>
        \A i \in 1..Len(output.steps) :
            LET heads == TextsOf(Section(input, i), "h3")
                cols == ListField(output.steps[i], "columns")
            IN  /\ Len(cols) = Len(heads)
                /\ \A c \in 1..Len(heads) : cols[c].title = heads[c]

\* the text before and after the first ":" of a span, trimmed
ColonAt(s) == CHOOSE i \in 1..Len(s) :
    s[i] = ":" /\ \A j \in 1..(i - 1) : s[j] # ":"
TrimmedKey(s) == Strip(SubSeq(s, 1, ColonAt(s) - 1))
TrimmedValue(s) == Strip(SubSeq(s, ColonAt(s) + 1, Len(s)))

\* <ul><li><span>key: value</span></li></ul>
IsKeyValueList(f) ==
    /\ Len(f) = 7
    /\ f[4].kind = "text"
    /\ f = ListOf(<< f[4].raw >>)
    /\ item_regex_match(Encode(f[4].raw)).matched

\* the document ends with an h2 heading, an h3 heading and then k lists of
\* one "key: value" span each; j is the place of the h2 heading
EndsWithColumnOfLists(j) ==
    /\ j + 1 <= Len(frags)
    /\ IsElement(frags[j], "h2")
    /\ IsElement(frags[j + 1], "h3")
    /\ \A m \in (j + 2)..Len(frags) : IsKeyValueList(frags[m])

\* C3: a column followed by k lists of one "key: value" span each ends with
\* exactly k items, in order, each mapping the trimmed key to the trimmed
\* value.
C3_ItemPerList ==
    Parsed =>
        \A j \in 1..Len(frags) :
            EndsWithColumnOfLists(j) =>
                LET col == Last(Last(output.steps).columns)
                    items == ListField(col, "items")
                    k == Len(frags) - (j + 1)
                IN  /\ col.title = Encode(frags[j + 1][2].raw)
                    /\ Len(items) = k
                    /\ \A m \in 1..k :
                        LET span == Encode(frags[j + 1 + m][4].raw)
                        IN  items[m] =
                                (TrimmedKey(span) :> TrimmedValue(span))

C3_Witness ==
    /\ Parsed
    /\ EndsWithColumnOfLists(1)
    /\ Len(frags) = 4
    /\ frags[3] # frags[4]
    /\ Len(Last(Last(output.steps).columns).items) = 2

\* a document that ends with an h2 heading, an h3 heading and one list,
\* which is a list of spans with these texts
EndsWithColumnOfOneList ==
    /\ Len(frags) >= 3
    /\ IsElement(frags[Len(frags) - 2], "h2")
    /\ IsElement(frags[Len(frags) - 1], "h3")
    /\ Len(Last(frags)) >= 7
    /\ Last(frags)[1] = TagOpen("ul")

Matches(s) == item_regex_match(Encode(s)).matched

\* <ul><li><span>key: value</span><span>more</span></li></ul>
IsContinuedList(f) ==
    /\ Len(f) = 10
    /\ f[4].kind = "text"
    /\ f[7].kind = "text"
    /\ f = ListOf(<< f[4].raw, f[7].raw >>)
    /\ Matches(f[4].raw)
    /\ ~Matches(f[7].raw)

\* <ul><li><span>more</span></li></ul>
IsKeylessList(f) ==
    /\ Len(f) = 7
    /\ f[4].kind = "text"
    /\ f = ListOf(<< f[4].raw >>)
    /\ ~Matches(f[4].raw)

\* C4: a list with the spans "title: Foo" and " Bar" in a column yields an
\* item whose "title" is "Foo Bar": the text of a span that does not match
\* the key pattern is appended to the value of the current key.
C4_ContinuationAppended ==
    (Parsed /\ EndsWithColumnOfOneList /\ IsContinuedList(Last(frags))) =>
        LET first == Encode(Last(frags)[4].raw)
            more == Encode(Last(frags)[7].raw)
            item == Last(Last(Last(output.steps).columns).items)
        IN  item = (TrimmedKey(first) :> (TrimmedValue(first) \o more))

\* C5: a span in item mode whose text does not match the key pattern, with
\* no current key, ends the run with an error: such a document is never
\* parsed to the end.
C5_KeylessSpanIsFatal ==
    ~(Parsed /\ EndsWithColumnOfOneList /\ IsKeylessList(Last(frags)))

\* C6: a document with one h1 heading, one paragraph and no h2 heading
\* yields the heading text as title, the paragraph text and a newline as
\* description, and no steps.
ElementsOf(tag) == { i \in 1..Len(frags) : IsElement(frags[i], tag) }

TitleAndParagraphOnly ==
    /\ Cardinality(ElementsOf("h1")) = 1
    /\ Cardinality(ElementsOf("p")) = 1
    /\ Positions(input, "h2") = << >>

C6_TitleAndDescription ==
    (Parsed /\ TitleAndParagraphOnly) =>
        LET h == CHOOSE i \in ElementsOf("h1") : TRUE
            q == CHOOSE i \in ElementsOf("p") : TRUE
        IN  output = [title |-> Encode(frags[h][2].raw),
                      description |-> Encode(frags[q][2].raw) \o << "\n" >>,
                      steps |-> << >>]

C6_Witness ==
    /\ Parsed
    /\ TitleAndParagraphOnly
    /\ output.title # << >>
    /\ output.description # << >>

\* the document of the fixture
FixtureDocument ==
    [title |-> << "T" >>,
     description |-> << "D", "\n" >>,
     steps |-> <<
        [navtitle |-> << "S", "1" >>,
         title |-> << "S", "1" >>,
         columns |-> <<
            [title |-> << "C", "1" >>,
             items |-> << (Txt_title :> << "X" >>) >>] >>] >>]

\* C7: feeding the fixture to a fresh parser raises no error and ends with
\* the document of the fixture.
C7_Fixture ==
    frags = Fixture =>
        /\ err = "none"
        /\ pos = Len(input) => output = FixtureDocument

C7_Witness == frags = Fixture /\ Parsed /\ state = "item"

\* the text of the first blockquote of a section that comes before the
\* first h3 heading of the section, or the text of its h2 heading
FirstQuoteOrHeading(sec) ==
    LET h3s == Positions(sec, "h3")
        limit == IF h3s = << >> THEN Len(sec) ELSE h3s[1]
        quotes == SelectSeq(Positions(sec, "blockquote"),
                            LAMBDA q : q < limit)
    IN  IF quotes = << >> THEN Encode(sec[2].raw)
        ELSE Encode(sec[quotes[1] + 1].raw)

\* C8: the title of a step is the text of the first blockquote below its h2
\* heading, or the h2 text if there is none; the navtitle is the h2 text.
C8_FirstBlockquoteIsTitle ==
    (Parsed /\ SimpleAtRoot(input, "h2") /\ SimpleAtRoot(input, "blockquote"))
    =>  \A i \in 1..Len(output.steps) :
            /\ output.steps[i].navtitle = TextsOf(input, "h2")[i]
            /\ output.steps[i].title = FirstQuoteOrHeading(Section(input, i))

(***************************************************************************)
(* What the environment and ~/.quiprc say, read from them alone.           *)
(***************************************************************************)
EnvUsable == environ # << >> /\ environ[1] # ""

\* the site whose token is wanted: "quip.com" if present, else the first
SelectedConfig(sites) ==
    IF \E i \in 1..Len(sites) : sites[i][1] = "quip.com"
    THEN sites[CHOOSE i \in 1..Len(sites) : sites[i][1] = "quip.com"][2]
    ELSE sites[1][2]

HasToken(config) ==
    /\ config # None
    /\ "accessToken" \in DOMAIN config
    /\ config["accessToken"] # None

NoUsableToken ==
    /\ ~EnvUsable
    /\ \/ rcfile.kind = "absent"
       \/ /\ rcfile.kind = "sites"
          /\ \/ rcfile.sites = << >>
             \/ ~HasToken(SelectedConfig(rcfile.sites))

\* C9: when no usable token can be located, get_token fails with the
\* login instructions and with no other error.
C9_MissingCredential ==
    (pc = "token" /\ NoUsableToken) =>
        token = Raises("AssertionError", login_error)

Consumed == SubSeq(input, 1, pos)

\* the texts that arrived right after the start tag of this name
HeadingTexts(evs, tag) ==
    SelectSeq([i \in 1..Len(evs) |-> i],
              LAMBDA i : /\ evs[i].kind = "text"
                         /\ i > 1
                         /\ evs[i - 1] = TagOpen(tag))

\* the event being handled by this step is of this kind
Handling(kind) ==
    /\ pc = "feed"
    /\ err = "none"
    /\ pos < Len(input)
    /\ input[pos + 1].kind = kind
    /\ pos' = pos + 1

Columns(step) == ListField(step, "columns")
Items(col) == ListField(col, "items")

\* C13: entities are immutable once the pass has moved past them: no step
\* changes a step other than the last one, nor an item other than the last
\* item of the last column of the last step.
C13_EarlierEntitiesFrozen ==
    [][ /\ \A i \in 1..(Len(output.steps) - 1) :
            output'.steps[i] = output.steps[i]
        /\ \A i \in 1..Len(output.steps) :
           \A c \in 1..Len(Columns(output.steps[i])) :
           \A m \in 1..Len(Items(Columns(output.steps[i])[c])) :
              (i < Len(output.steps)
                 \/ c < Len(Columns(output.steps[i]))
                 \/ m < Len(Items(Columns(output.steps[i])[c])))
              => Items(Columns(output'.steps[i])[c])[m]
                    = Items(Columns(output.steps[i])[c])[m]
      ]_vars

\* number of h2 headings read so far, and of h3 headings read since the
\* last of them
StepsSeen == Len(HeadingTexts(Consumed, "h2"))
ColumnsSeen ==
    LET h2s == HeadingTexts(Consumed, "h2")
        from == IF h2s = << >> THEN 1 ELSE h2s[Len(h2s)]
    IN  Len(HeadingTexts(SubSeq(Consumed, from, pos), "h3"))

\* C14: closed scopes receive no new children: a column is only ever added
\* to the step of the last h2 heading read, and an item only to the column
\* of the last h3 heading read within that step.
C14_NoChildrenInClosedScopes ==
    [][ \A i \in 1..Len(output.steps) :
          /\ Len(Columns(output'.steps[i])) > Len(Columns(output.steps[i]))
                => i = StepsSeen'
          /\ \A c \in 1..Len(Columns(output.steps[i])) :
                Len(Items(Columns(output'.steps[i])[c]))
                    > Len(Items(Columns(output.steps[i])[c]))
                => (i = StepsSeen' /\ c = ColumnsSeen')
      ]_vars

\* a text event is about to be handled with at least one tag open
TextNext ==
    /\ pc = "feed"
    /\ err = "none"
    /\ pos < Len(input)
    /\ input[pos + 1].kind = "text"
    /\ current_tags # << >>

\* the parser with another stack that has the same innermost tag
AltBelow == { << >> } \cup { << t >> : t \in Tags }
WithBelow(below) ==
    [Self EXCEPT !.current_tags = below \o << Last(current_tags) >>]

\* what a text event does to everything but the stack
Effect(self, raw) == [handle_data(self, raw) EXCEPT !.current_tags = << >>]

\* C15: parsers that differ only in the tags below the innermost
\* one react identically to the same text event.
C15_InnermostTagOnly ==
    TextNext =>
        \A below \in AltBelow :
            Effect(WithBelow(below), input[pos + 1].raw)
                = Effect(Self, input[pos + 1].raw)

Modes == { "title", "step", "column", "item" }

\* C16: the mode starts as title and stays one of the four; it changes only
\* to step on a text inside h2, from step to column on a text inside h3, and
\* from column or item to item on the start of a ul; column and item modes
\* are only ever held while the last step has a column.
C16_ModeTransitions ==
    /\ state = "title"
    /\ [](/\ state \in Modes
          /\ state \in { "column", "item" } =>
                /\ output.steps # << >>
                /\ Columns(Last(output.steps)) # << >>)
    /\ [][ state' # state =>
             \/ /\ state' = "step"
                /\ Handling("text")
                /\ current_tags # << >>
                /\ Last(current_tags) = "h2"
             \/ /\ state = "step"
                /\ state' = "column"
                /\ Handling("text")
                /\ current_tags # << >>
                /\ Last(current_tags) = "h3"
             \/ /\ state \in { "column", "item" }
                /\ state' = "item"
                /\ Handling("open")
                /\ input[pos + 1].tag = "ul"
         ]_vars

C16_Witness ==
    /\ state = "step"
    /\ Len(output.steps) = 2
    /\ Columns(output.steps[1]) # << >>
    /\ Items(Columns(output.steps[1])[1]) # << >>
    /\ pos > 0
    /\ input[pos].kind = "close"

\* no step has an empty list of columns, no column an empty list of items
NoEmptyChildLists ==
    \A i \in 1..Len(output.steps) :
        /\ "columns" \in DOMAIN output.steps[i] =>
              output.steps[i].columns # << >>
        /\ \A c \in 1..Len(Columns(output.steps[i])) :
              "items" \in DOMAIN output.steps[i].columns[c] =>
                  output.steps[i].columns[c].items # << >>

\* C17, as claimed: no list of the document, steps included, exists empty.
C17_NoEmptyList ==
    /\ output.steps # << >>
    /\ NoEmptyChildLists

\* C17, amended: a step has a columns field only with a column in it and a
\* column an items field only with an item in it; the steps list is there
\* from the start, empty until the first step.
C17_NoEmptyColumnsOrItems ==
    /\ "steps" \in DOMAIN output
    /\ pos = 0 => output.steps = << >>
    /\ NoEmptyChildLists

C17_Witness ==
    /\ Len(output.steps) = 2
    /\ "columns" \notin DOMAIN output.steps[2]
    /\ "columns" \in DOMAIN output.steps[1]
    /\ "items" \in DOMAIN output.steps[1].columns[1]
    /\ err = "none"

\* a text event inside a paragraph is being handled
ParagraphText ==
    /\ Handling("text")
    /\ current_tags # << >>
    /\ Last(current_tags) = "p"

\* title and description of the document change only in title mode, and a
\* paragraph in step mode adds its text and a newline to the description of
\* the last step
TitleOnlyInTitleMode ==
    /\ state # "title" =>
          /\ output'.title = output.title
          /\ output'.description = output.description
    /\ (ParagraphText /\ state = "step") =>
          LET step == Last(output.steps)
              old == IF "description" \in DOMAIN step
                     THEN step.description ELSE << >>
          IN  Last(output'.steps).description
                  = old \o Encode(input[pos + 1].raw) \o << "\n" >>

\* C18: title and description of the document change only in title mode, a
\* paragraph in step mode goes to the description of the last step, and a
\* paragraph in column or item mode changes nothing.
C18_ParagraphOutsideStepIgnored ==
    [][ /\ TitleOnlyInTitleMode
        /\ (ParagraphText /\ state \in { "column", "item" }) =>
               UNCHANGED parser_vars
      ]_vars

\* C19: a text event that arrives while no tag is open changes nothing and
\* raises nothing.
C19_TextOutsideTagsIgnored ==
    [][ (Handling("text") /\ current_tags = << >>) =>
            UNCHANGED parser_vars ]_vars

C19_Witness ==
    /\ pos > 0
    /\ input[pos].kind = "text"
    /\ current_tags = << >>
    /\ state = "item"
    /\ err = "none"

\* the tags opened and not yet popped, in opening order: an end tag pops the
\* last one whatever its name
RECURSIVE StackOf(_)
StackOf(evs) ==
    IF evs = << >> THEN << >>
    ELSE LET before == StackOf(SubSeq(evs, 1, Len(evs) - 1))
             e == evs[Len(evs)]
         IN  IF e.kind = "open" THEN Append(before, e.tag)
             ELSE IF e.kind = "close" /\ before # << >>
             THEN SubSeq(before, 1, Len(before) - 1)
             ELSE before

\* C20: the stack is the tags opened and not yet popped, in opening order,
\* an end tag pops the last one whatever its name, and an end tag that
\* arrives when the stack is empty ends the run with an error.
C20_StackDiscipline ==
    /\ current_tags = StackOf(Consumed)
    /\ (/\ pos > 0
        /\ input[pos].kind = "close"
        /\ StackOf(SubSeq(input, 1, pos - 1)) = << >>) => err = "IndexError"

C20_Witness ==
    /\ pos > 0
    /\ input[pos].kind = "close"
    /\ err = "none"
    /\ current_tags # << >>
    /\ input[pos].tag # Last(StackOf(SubSeq(input, 1, pos - 1)))

\* C11: started without an argument, the script ends with the message that
\* asks for a document id and a non-zero status, before any credential is
\* read, any request is made or anything is printed.
C11_MissingArgument ==
    (argv = << >> /\ pc # "start") =>
        /\ pc = "exit"
        /\ uncaught.msg
             = "Pass a document ID as the first argument to this script."
        /\ ExitStatus # 0
        /\ token = Pending
        /\ response = << >>
        /\ stdout = << >>

\* C12: something is printed only after get_token returned, the thread was
\* fetched and every event was handled without an exception, and then it
\* is the dump of the whole output; a run that an exception ends prints
\* nothing.
C12_NoPartialOutput ==
    /\ stdout # << >> =>
          /\ pc = "done"
          /\ token.kind = "return"
          /\ response = "thread"
          /\ err = "none"
          /\ pos = Len(input)
          /\ uncaught = Pending
          /\ stdout = << yaml_dump(output) >>
    /\ (uncaught # Pending \/ err # "none" \/ token.kind = "raise") =>
          stdout = << >>

C12_Witness ==
    /\ pc = "done"
    /\ frags = Fixture
    /\ stdout = << yaml_dump(output) >>
    /\ Len(output.steps) = 1

====
